---- MODULE Spec2Model ----
(***************************************************************************)
(* Model of chromaprint.py: the ctypes wrapper around libchromaprint.      *)
(*                                                                         *)
(* The wrapper (class Fingerprinter, decode_fingerprint,                   *)
(* encode_fingerprint, _check) is translated from the source.  The native  *)
(* library behind it is not part of the source: it is modelled as an       *)
(* engine whose call has its documented effect exactly when it answers     *)
(* the success status.  Its answer to start is a function of the           *)
(* parameters and of its own state; feed, finish and get_fingerprint may   *)
(* also fail for internal reasons that come and go.                        *)
(***************************************************************************)
EXTENDS Integers, Sequences, FiniteSets, TLC

\* ------------------------------------------------------------------ bounds
MaxBytes    == 4      \* most PCM bytes fed to one stream, over all its chunks
MaxFpLen    == 2      \* longest raw fingerprint handed to encode_fingerprint
MaxSeen     == 2      \* the counts of restarts stop counting here

\* --------------------------------------------------------------- constants
ALGORITHM_TEST1 == 0
ALGORITHM_TEST2 == 1
ALGORITHM_TEST3 == 2
ALGORITHM_DEFAULT == ALGORITHM_TEST2
Algorithms == {ALGORITHM_TEST1, ALGORITHM_TEST2, ALGORITHM_TEST3}

Sessions == {1}
NULL == 0             \* the null pointer / Python None for a c_void_p
None == <<>>          \* no value returned (every returned value is non-empty)
Statuses == {0, 1, 2} \* values an engine call may return as its c_int status
Bytes == {1, 255}     \* byte values used in PCM chunks
StartParams == {<<11025, 1>>, <<44100, 2>>}   \* (sample_rate, num_channels)
\* The start parameters whose restarts are counted: two pairs the engine
\* supports and one it does not
RestartParams == {<<8000, 1>>, <<22050, 2>>, <<22050, 0>>}
\* Python 3: BUFFER_TYPES = (memoryview, bytearray), BYTES_TYPE = bytes
BUFFER_TYPES == {"memoryview", "bytearray"}
BYTES_TYPE == "bytes"
DataTypes == {"bytes", "memoryview", "bytearray", "str"}

VARIABLES
    pyState,   \* per session: "unborn", "alive" (has _ctx), "noattr" (_ctx
               \* deleted, object still referenced), "collected"
    ctx,       \* per session: the value of self._ctx (a handle or NULL)
    eng,       \* per handle: the engine instance behind it
    freeCalls, \* per pointer value: number of chromaprint_free calls on it
    fed,       \* per session: the bytes of the successful feeds of this stream,
               \* concatenated in call order, whether every chunk was even, and
               \* whether the bytes came in more than one non-empty chunk
    done,      \* per session: finish() has returned a fingerprint
    encoded,   \* the last encode_fingerprint call, when it returned: its
               \* arguments and the bytes it returned
    last,      \* the last operation: what was called, how it ended, and
               \* the engine calls it made, in order
    restarts   \* per session and pair of RestartParams: how many start()
               \* calls on the Started session returned, and how many raised

vars == <<pyState, ctx, eng, freeCalls, fed, done, encoded, last, restarts>>

\* ---------------------------------------------------------------- helpers
RECURSIVE SeqsUpTo(_, _)
SeqsUpTo(S, n) ==
    IF n = 0 THEN {<<>>}
    ELSE LET shorter == SeqsUpTo(S, n - 1)
         IN  shorter \cup {Append(q, x) : q \in {r \in shorter : Len(r) = n - 1}, x \in S}

Chunks == SeqsUpTo(Bytes, MaxBytes)
NoneFed == [bytes |-> <<>>, even |-> TRUE, split |-> FALSE]
AddFed(f, data) ==
    [bytes |-> f.bytes \o data,
     even  |-> f.even /\ Len(data) % 2 = 0,
     split |-> f.split \/ (Len(f.bytes) > 0 /\ Len(data) > 0)]
NoRestarts == [p \in RestartParams |-> [ok |-> 0, err |-> 0]]
Seen(n) == IF n < MaxSeen THEN n + 1 ELSE MaxSeen
AddRestart(r, p, raised) ==
    IF p \notin DOMAIN r THEN r
    ELSE IF raised THEN [r EXCEPT ![p].err = Seen(@)] ELSE [r EXCEPT ![p].ok = Seen(@)]
NoEncoded == [set |-> FALSE, fp |-> <<>>, alg |-> 0, base64 |-> FALSE, bytes |-> <<>>]

\* ------------------------------------------------------------ the wrapper
\* _check: TRUE when it raises FingerprintError
_checkWrongSentinel(res) == res = 0
_checkZeroIsSuccess(res) == res # 0
_check(res) == res # 1

\* feed: the sample count passed to chromaprint_feed
SampleCountFrames(data) == Len(data) \div 4
SampleCount(data) == Len(data) \div 2

\* feed: data of a buffer type is converted with BYTES_TYPE(data); the
\* result has the type BYTES_TYPE and the same bytes
ToBytesNoConversion(ty, data) == [type |-> ty, bytes |-> data]
ToBytes(ty, data) ==
    IF ty \in BUFFER_TYPES THEN [type |-> BYTES_TYPE, bytes |-> data]
    ELSE [type |-> ty, bytes |-> data]

\* feed: TRUE when it raises TypeError
FeedTypeError(ty) == ty \notin BUFFER_TYPES /\ ty # "bytes"

\* ------------------------------------------------------------- the engine
\* A 16-bit signed little-endian sample from two bytes
Int16LE(lo, hi) ==
    LET u == lo + 256 * hi IN IF u >= 32768 THEN u - 65536 ELSE u

\* The first n samples the engine reads from the buffer
EngineSamples(data, n) == [i \in 1..n |-> Int16LE(data[2 * i - 1], data[2 * i])]

\* An engine instance: restart is its rule for a start on a stream that is
\* already started, TRUE when it accepts and resets; the rule is the
\* implementation's and does not change while the instance lives
NoEngine == [st |-> "Unallocated", alg |-> 0, rate |-> 0, ch |-> 0, audio |-> <<>>,
             restart |-> FALSE]
EngNew(alg) == [st |-> "Created", alg |-> alg, rate |-> 0, ch |-> 0, audio |-> <<>>,
                restart |-> FALSE]
EngFree(e) == [st |-> "Freed", alg |-> 0, rate |-> 0, ch |-> 0, audio |-> <<>>,
               restart |-> FALSE]
EngStart(e, rate, ch) ==
    [e EXCEPT !.st = "Started", !.rate = rate, !.ch = ch, !.audio = <<>>]
EngFeed(e, data, n) == [e EXCEPT !.audio = @ \o EngineSamples(data, n)]
EngFinish(e) == [e EXCEPT !.st = "Finished"]
\* The text the engine hands out for a stream: a function of the algorithm,
\* the start parameters and the accumulated audio
EngGetFingerprint(e) == <<e.alg, e.rate, e.ch>> \o e.audio

\* Statuses feed, finish and get_fingerprint may answer on a handle: a null
\* handle never succeeds; on an instance the call may also fail for an
\* internal reason (memory exhaustion), which can differ from call to call
StatusesOn(h) == IF h = NULL THEN Statuses \ {1} ELSE Statuses

\* The parameters the engine can be configured for: a positive sample rate
\* and a positive channel count
ParamsSupported(rate, ch) == rate > 0 /\ ch > 0

\* The status the engine answers to start: it rejects parameters it does not
\* support and a start out of order; a start on a stream already started is
\* accepted or rejected by the engine's own fixed rule.  Nothing else makes
\* start fail, so the same start in the same state has the same answer.
EngStartStatus(e, rate, ch) ==
    IF ~ParamsSupported(rate, ch) THEN 0
    ELSE IF e.st = "Created" THEN 1
    ELSE IF e.st = "Started" /\ e.restart THEN 1
    ELSE 0
StartStatusesOn(h, e, rate, ch) ==
    IF h = NULL THEN StatusesOn(h) ELSE {EngStartStatus(e, rate, ch)}

\* ------------------------------------------------------- call trace items
Call(fn, status) == [fn |-> fn, status |-> status, buf |-> 0]
ReadBuf == [fn |-> "read", status |-> 1, buf |-> 1]
Dealloc == [fn |-> "chromaprint_dealloc", status |-> 1, buf |-> 1]

NoOp == [op |-> "none", s |-> 0, type |-> "", data |-> <<>>, pre |-> "",
         outcome |-> "", result |-> None, calls |-> <<>>, args |-> <<>>]
Op(op, s, ty, data, pre, outcome, result, calls) ==
    [op |-> op, s |-> s, type |-> ty, data |-> data, pre |-> pre,
     outcome |-> outcome, result |-> result, calls |-> calls, args |-> <<>>]
CodecOp(op, data, args, outcome, result, calls) ==
    [op |-> op, s |-> 0, type |-> "bytes", data |-> data, pre |-> "",
     outcome |-> outcome, result |-> result, calls |-> calls, args |-> args]

\* ------------------------------------------------------------------ Init
Init ==
    /\ pyState = [s \in Sessions |-> "unborn"]
    /\ ctx = [s \in Sessions |-> NULL]
    /\ eng = [s \in Sessions |-> NoEngine]
    /\ freeCalls = [p \in Sessions \cup {NULL} |-> 0]
    /\ fed = [s \in Sessions |-> NoneFed]
    /\ done = [s \in Sessions |-> FALSE]
    /\ encoded = NoEncoded
    /\ last = NoOp
    /\ restarts = [s \in Sessions |-> NoRestarts]

Referenced(s) == pyState[s] \in {"alive", "noattr"}

\* Fingerprinter.__init__: self._ctx = chromaprint_new(algorithm); the
\* engine answers a fresh handle, or NULL when it cannot make an instance.
\* The instance comes with the implementation's rule for a restart.
New(s, alg) ==
    /\ pyState[s] = "unborn"
    /\ \E h \in {s, NULL}, rule \in BOOLEAN :
        /\ ctx' = [ctx EXCEPT ![s] = h]
        /\ eng' = IF h = NULL THEN eng
                  ELSE [eng EXCEPT ![s] = [EngNew(alg) EXCEPT !.restart = rule]]
        /\ last' = Op("new", s, "", <<>>, eng[s].st, "ok", None,
                      <<Call("chromaprint_new", IF h = NULL THEN 0 ELSE 1)>>)
    /\ pyState' = [pyState EXCEPT ![s] = "alive"]
    /\ UNCHANGED <<freeCalls, fed, done, encoded, restarts>>

\* The body of __del__: chromaprint_free(self._ctx); del self._ctx.
\* Without the attribute, the lookup of self._ctx raises AttributeError
\* before chromaprint_free is called.
DelBodyKeepAttr(s, after) ==
    /\ freeCalls' = [freeCalls EXCEPT ![ctx[s]] = @ + 1]
    /\ eng' = IF ctx[s] = NULL THEN eng ELSE [eng EXCEPT ![s] = EngFree(@)]
    /\ pyState' = [pyState EXCEPT ![s] = IF after = "noattr" THEN "alive" ELSE after]
    /\ last' = Op("del", s, "", <<>>, eng[s].st, "ok", None,
                  <<Call("chromaprint_free", 1)>>)
    /\ UNCHANGED <<ctx, fed>>
DelBody(s, after) ==
    IF pyState[s] = "alive"
    THEN /\ freeCalls' = [freeCalls EXCEPT ![ctx[s]] = @ + 1]
         /\ eng' = IF ctx[s] = NULL THEN eng ELSE [eng EXCEPT ![s] = EngFree(@)]
         /\ pyState' = [pyState EXCEPT ![s] = after]
         /\ last' = Op("del", s, "", <<>>, eng[s].st, "ok", None,
                       <<Call("chromaprint_free", 1)>>)
         /\ UNCHANGED <<ctx, fed>>
    ELSE /\ pyState' = [pyState EXCEPT ![s] = after]
         /\ last' = Op("del", s, "", <<>>, eng[s].st, "AttributeError", None, <<>>)
         /\ UNCHANGED <<ctx, eng, freeCalls, fed>>

\* An explicit call of __del__ on a session that stays referenced
Del(s) ==
    /\ Referenced(s)
    /\ DelBody(s, "noattr")
    /\ UNCHANGED <<done, encoded, restarts>>

\* The last reference goes away: the interpreter runs __del__ once and
\* ignores what it raises
Collect(s) ==
    /\ Referenced(s)
    /\ DelBody(s, "collected")
    /\ UNCHANGED <<done, encoded, restarts>>

\* Fingerprinter.start
Start(s, rate, ch) ==
    /\ Referenced(s)
    /\ IF pyState[s] = "noattr"
       THEN /\ last' = Op("start", s, "", <<rate, ch>>, eng[s].st, "AttributeError",
                           None, <<>>)
            /\ UNCHANGED <<eng, fed, restarts>>
       ELSE \E st \in StartStatusesOn(ctx[s], eng[s], rate, ch) :
            /\ eng' = IF st = 1 THEN [eng EXCEPT ![s] = EngStart(@, rate, ch)] ELSE eng
            /\ fed' = IF st = 1 THEN [fed EXCEPT ![s] = NoneFed] ELSE fed
            /\ last' = Op("start", s, "", <<rate, ch>>, eng[s].st,
                          IF _check(st) THEN "FingerprintError" ELSE "ok", None,
                          <<Call("chromaprint_start", st)>>)
            /\ restarts' = IF eng[s].st = "Started"
                           THEN [restarts EXCEPT
                                    ![s] = AddRestart(@, <<rate, ch>>, _check(st))]
                           ELSE restarts
    /\ UNCHANGED <<pyState, ctx, freeCalls, done, encoded>>

\* Fingerprinter.feed
Feed(s, ty, data) ==
    /\ Referenced(s)
    /\ Len(fed[s].bytes) + Len(data) <= MaxBytes
    /\ IF FeedTypeError(ty)
       THEN /\ last' = Op("feed", s, ty, data, eng[s].st, "TypeError", None, <<>>)
            /\ UNCHANGED <<eng, fed>>
       ELSE IF pyState[s] = "noattr"
       THEN /\ last' = Op("feed", s, ty, data, eng[s].st, "AttributeError", None, <<>>)
            /\ UNCHANGED <<eng, fed>>
       ELSE \E st \in StatusesOn(ctx[s]) :
            LET arg == ToBytes(ty, data)
                n == SampleCount(arg.bytes)
            IN  /\ eng' = IF st = 1 THEN [eng EXCEPT ![s] = EngFeed(@, arg.bytes, n)]
                          ELSE eng
                /\ fed' = IF st = 1 THEN [fed EXCEPT ![s] = AddFed(@, data)] ELSE fed
                /\ last' = Op("feed", s, ty, data, eng[s].st,
                              IF _check(st) THEN "FingerprintError" ELSE "ok", None,
                              <<[fn |-> "chromaprint_feed", status |-> st, buf |-> 0,
                                 bytes |-> arg.bytes, type |-> arg.type, count |-> n]>>)
    /\ UNCHANGED <<pyState, ctx, freeCalls, done, encoded, restarts>>

\* Fingerprinter.finish: what it does after chromaprint_get_fingerprint
\* succeeded: copy the buffer (fingerprint_ptr.value), then dealloc it
FinishTailNoDealloc == <<ReadBuf>>
FinishTailDeallocFirst == <<Dealloc, ReadBuf>>
FinishTail == <<ReadBuf, Dealloc>>

\* Fingerprinter.finish
Finish(s) ==
    /\ Referenced(s)
    /\ IF pyState[s] = "noattr"
       THEN /\ last' = Op("finish", s, "", <<>>, eng[s].st, "AttributeError", None, <<>>)
            /\ UNCHANGED <<eng, done>>
       ELSE \E st1 \in StatusesOn(ctx[s]) :
            LET e1 == IF st1 = 1 THEN EngFinish(eng[s]) ELSE eng[s]
                c1 == Call("chromaprint_finish", st1)
            IN  /\ eng' = [eng EXCEPT ![s] = e1]
                /\ IF _check(st1)
                   THEN /\ last' = Op("finish", s, "", <<>>, eng[s].st,
                                      "FingerprintError", None, <<c1>>)
                        /\ UNCHANGED done
                   ELSE \E st2 \in StatusesOn(ctx[s]) :
                        LET c2 == [fn |-> "chromaprint_get_fingerprint",
                                   status |-> st2, buf |-> IF st2 = 1 THEN 1 ELSE 0]
                        IN  IF _check(st2)
                            THEN /\ last' = Op("finish", s, "", <<>>, eng[s].st,
                                               "FingerprintError", None, <<c1, c2>>)
                                 /\ UNCHANGED done
                            ELSE /\ last' = Op("finish", s, "", <<>>, eng[s].st, "ok",
                                               IF st2 = 1 THEN EngGetFingerprint(e1)
                                               ELSE None,
                                               <<c1, c2>> \o FinishTail)
                                 /\ done' = [done EXCEPT ![s] = TRUE]
    /\ UNCHANGED <<pyState, ctx, freeCalls, fed, encoded, restarts>>

\* ------------------------------------------------------ the engine's codec
\* The engine's encoded form: a header of the algorithm byte and the
\* 3-byte big-endian item count, then each item as 4 big-endian bytes;
\* the text form is the URL-safe base64 of that, without padding.
\* A 32-bit item in native memory is the tuple of its 4 bytes, most
\* significant first.
BE3(n) == <<(n \div 65536) % 256, (n \div 256) % 256, n % 256>>

B64Char(v) ==
    IF v < 26 THEN 65 + v
    ELSE IF v < 52 THEN 97 + (v - 26)
    ELSE IF v < 62 THEN 48 + (v - 52)
    ELSE IF v = 62 THEN 45 ELSE 95
B64Val(c) ==
    IF c >= 65 /\ c <= 90 THEN c - 65
    ELSE IF c >= 97 /\ c <= 122 THEN c - 97 + 26
    ELSE IF c >= 48 /\ c <= 57 THEN c - 48 + 52
    ELSE IF c = 45 THEN 62
    ELSE IF c = 95 THEN 63 ELSE -1

RECURSIVE B64Encode(_)
B64Encode(b) ==
    IF Len(b) = 0 THEN <<>>
    ELSE IF Len(b) = 1
    THEN LET v == b[1] * 16 IN <<B64Char(v \div 64), B64Char(v % 64)>>
    ELSE IF Len(b) = 2
    THEN LET v == b[1] * 1024 + b[2] * 4
         IN  <<B64Char(v \div 4096), B64Char((v \div 64) % 64), B64Char(v % 64)>>
    ELSE LET v == b[1] * 65536 + b[2] * 256 + b[3]
         IN  <<B64Char(v \div 262144), B64Char((v \div 4096) % 64),
               B64Char((v \div 64) % 64), B64Char(v % 64)>>
             \o B64Encode(SubSeq(b, 4, Len(b)))

RECURSIVE B64Decode(_)
B64Decode(c) ==
    IF Len(c) = 0 THEN <<>>
    ELSE IF Len(c) = 1 THEN <<>>
    ELSE IF Len(c) = 2
    THEN <<(B64Val(c[1]) * 64 + B64Val(c[2])) \div 16>>
    ELSE IF Len(c) = 3
    THEN LET v == B64Val(c[1]) * 4096 + B64Val(c[2]) * 64 + B64Val(c[3])
         IN  <<v \div 1024, (v \div 4) % 256>>
    ELSE LET v == B64Val(c[1]) * 262144 + B64Val(c[2]) * 4096
                  + B64Val(c[3]) * 64 + B64Val(c[4])
         IN  <<v \div 65536, (v \div 256) % 256, v % 256>>
             \o B64Decode(SubSeq(c, 5, Len(c)))

B64WellFormed(c) == Len(c) % 4 # 1 /\ \A i \in 1..Len(c) : B64Val(c[i]) >= 0

RECURSIVE EncodeItems(_, _)
EncodeItems(arr, n) ==
    IF n = 0 THEN <<>> ELSE EncodeItems(arr, n - 1) \o arr[n]

\* chromaprint_encode_fingerprint(fp, size, algorithm, &encoded, &encoded_size,
\* base64): the buffer it allocates and the size it reports
EngineEncode(arr, n, alg, flag) ==
    LET raw == <<alg % 256>> \o BE3(n) \o EncodeItems(arr, n)
        out == IF flag = 1 THEN B64Encode(raw) ELSE raw
    IN  [buf |-> out, size |-> Len(out)]

EngineRaw(data, n, flag) ==
    LET given == SubSeq(data, 1, n) IN IF flag = 1 THEN B64Decode(given) ELSE given

\* TRUE when the engine can parse the first n bytes of data
EngineDecodable(data, n, flag) ==
    /\ flag = 1 => B64WellFormed(SubSeq(data, 1, n))
    /\ LET raw == EngineRaw(data, n, flag)
       IN  /\ Len(raw) >= 4
           /\ Len(raw) = 4 + 4 * (raw[2] * 65536 + raw[3] * 256 + raw[4])

\* chromaprint_decode_fingerprint(encoded, encoded_size, &fp, &size,
\* &algorithm, base64): the int32 array it allocates, its size, the algorithm
EngineDecode(data, n, flag) ==
    LET raw == EngineRaw(data, n, flag)
        cnt == raw[2] * 65536 + raw[3] * 256 + raw[4]
    IN  [buf |-> [i \in 1..cnt |-> SubSeq(raw, 4 * i + 1, 4 * i + 4)],
         size |-> cnt, alg |-> raw[1]]

\* ------------------------------------------------------ the wrapper's codec
\* Storing a Python int into a ctypes.c_int array item: the 4 bytes of its
\* two's complement form
BE4(u) == <<u \div 16777216, (u \div 65536) % 256, (u \div 256) % 256, u % 256>>
ToCInt(x) ==
    IF x >= 0 THEN BE4(x)
    ELSE LET b == BE4((x + 2147483647) + 1) IN <<b[1] + 128, b[2], b[3], b[4]>>

\* Reading an item of a ctypes.c_int32 array: the signed value of its 4 bytes
FromCInt32Magnitude(w) ==
    (w[1] % 128) * 16777216 + w[2] * 65536 + w[3] * 256 + w[4]
FromCInt32(w) ==
    LET low == (w[1] % 128) * 16777216 + w[2] * 65536 + w[3] * 256 + w[4]
    IN  IF w[1] >= 128 THEN (low - 2147483647) - 1 ELSE low

\* encode_fingerprint: fp_array = (c_int * len(fingerprint))(), filled item
\* by item
FpArray(fingerprint) == [i \in 1..Len(fingerprint) |-> ToCInt(fingerprint[i])]

\* 1 if base64 else 0
Base64FlagInverted(base64) == IF base64 THEN 0 ELSE 1
Base64Flag(base64) == IF base64 THEN 1 ELSE 0

\* result_ptr[:result_size.value]
ResultSliceShort(buf, size) == SubSeq(buf, 1, size - 1)
ResultSlice(buf, size) == SubSeq(buf, 1, size)

\* decode_fingerprint: the slice of the c_int32 array, as Python ints
Int32Slice(buf, size) ==
    LET items == ResultSlice(buf, size)
    IN  [i \in 1..Len(items) |-> FromCInt32(items[i])]

\* What the codec functions do after the engine call succeeded: copy the
\* buffer, then dealloc it
CodecTailNoDealloc == <<ReadBuf>>
CodecTail == <<ReadBuf, Dealloc>>

FpVals == {-2147483647 - 1, -1, 2147483647}
Fingerprints == SeqsUpTo(FpVals, MaxFpLen)
\* Inputs of decode_fingerprint that no encode_fingerprint produced
Malformed == {<<>>, <<65>>, <<1, 0, 0, 1>>, <<65, 81, 65, 65, 65, 33>>}
DecodeInputs == Malformed \cup (IF encoded.set THEN {encoded.bytes} ELSE {})

\* encode_fingerprint(fingerprint, algorithm, base64)
EncodeOnSessionContext(fingerprint, algorithm, base64) ==
    /\ \E st \in Statuses \ {1} :
        last' = CodecOp("encode", <<>>,
                        [fp |-> fingerprint, alg |-> algorithm, base64 |-> base64],
                        "FingerprintError", None,
                        <<[fn |-> "chromaprint_encode_fingerprint", status |-> st,
                           buf |-> 0]>>)
    /\ encoded' = NoEncoded
    /\ eng' = [s \in Sessions |->
                IF pyState[s] = "alive" /\ ctx[s] # NULL THEN EngFinish(eng[s])
                ELSE eng[s]]
    /\ UNCHANGED <<pyState, ctx, freeCalls, fed, done, restarts>>
Encode(fingerprint, algorithm, base64) ==
    /\ LET fp_array == FpArray(fingerprint)
           args == [fp |-> fingerprint, alg |-> algorithm, base64 |-> base64]
       IN  \E st \in Statuses :
           LET c == [fn |-> "chromaprint_encode_fingerprint", status |-> st,
                     buf |-> IF st = 1 THEN 1 ELSE 0]
               out == EngineEncode(fp_array, Len(fingerprint), algorithm,
                                   Base64Flag(base64))
           IN  IF _check(st)
               THEN /\ last' = CodecOp("encode", <<>>, args, "FingerprintError",
                                       None, <<c>>)
                    /\ encoded' = NoEncoded
               ELSE LET result == IF st = 1 THEN ResultSlice(out.buf, out.size)
                                  ELSE <<>>
                    IN  /\ last' = CodecOp("encode", <<>>, args, "ok", result,
                                           <<c>> \o CodecTail)
                        /\ encoded' = [set |-> TRUE, fp |-> fingerprint,
                                       alg |-> algorithm,
                                       base64 |-> base64, bytes |-> result]
    /\ UNCHANGED <<pyState, ctx, eng, freeCalls, fed, done, restarts>>

\* decode_fingerprint(data, base64)
Decode(data, base64) ==
    /\ data \in DecodeInputs
    /\ LET flag == Base64Flag(base64)
           args == [base64 |-> base64]
           ok == EngineDecodable(data, Len(data), flag)
       IN  \E st \in (IF ok THEN Statuses ELSE Statuses \ {1}) :
           LET c == [fn |-> "chromaprint_decode_fingerprint", status |-> st,
                     buf |-> IF st = 1 THEN 1 ELSE 0]
           IN  IF _check(st)
               THEN last' = CodecOp("decode", data, args, "FingerprintError",
                                    None, <<c>>)
               ELSE LET out == EngineDecode(data, Len(data), flag)
                        result == IF st = 1
                                  THEN <<Int32Slice(out.buf, out.size), out.alg>>
                                  ELSE <<<<>>, 0>>
                    IN  last' = CodecOp("decode", data, args, "ok", result,
                                        <<c>> \o CodecTail)
    /\ UNCHANGED <<pyState, ctx, eng, freeCalls, fed, done, encoded, restarts>>


\* Every session operation of a session of the default algorithm, over
\* every chunk of at most MaxBytes bytes
SomeTypes == {"bytes", "bytearray", "str"}
SessionNext ==
    \/ \E s \in Sessions : New(s, ALGORITHM_DEFAULT)
    \/ \E s \in Sessions : Del(s)
    \/ \E s \in Sessions : Collect(s)
    \/ \E s \in Sessions, p \in StartParams : Start(s, p[1], p[2])
    \/ \E s \in Sessions, ty \in SomeTypes, data \in Chunks : Feed(s, ty, data)
    \/ \E s \in Sessions : Finish(s)

\* Every codec operation, over every fingerprint of at most MaxFpLen items
CodecNext ==
    \/ \E fp \in Fingerprints, alg \in Algorithms, b \in BOOLEAN : Encode(fp, alg, b)
    \/ \E data \in DecodeInputs, b \in BOOLEAN : Decode(data, b)

\* Sessions and codec side by side, over a few inputs of each kind
SomeChunks == {<<1, 255>>, <<255>>}
SomeFingerprints == {<<>>, <<-1>>}
Next ==
    \/ \E s \in Sessions : New(s, ALGORITHM_DEFAULT)
    \/ \E s \in Sessions : Del(s)
    \/ \E s \in Sessions : Collect(s)
    \/ \E s \in Sessions : Start(s, 44100, 2)
    \/ \E s \in Sessions, ty \in DataTypes, data \in SomeChunks : Feed(s, ty, data)
    \/ \E s \in Sessions : Finish(s)
    \/ \E fp \in SomeFingerprints, b \in BOOLEAN : Encode(fp, ALGORITHM_DEFAULT, b)
    \/ \E data \in DecodeInputs, b \in BOOLEAN : Decode(data, b)

\* A session of any algorithm that is started again and again, with the
\* restarts counted
RestartNext ==
    \/ \E s \in Sessions, alg \in Algorithms : New(s, alg)
    \/ \E s \in Sessions : Del(s)
    \/ \E s \in Sessions : Collect(s)
    \/ \E s \in Sessions, p \in RestartParams : Start(s, p[1], p[2])
    \/ \E s \in Sessions, data \in SomeChunks : Feed(s, "bytes", data)
    \/ \E s \in Sessions : Finish(s)

\* The whole program
Spec == Init /\ [][Next]_vars

\* The sessions alone
SessionSpec == Init /\ [][SessionNext]_vars

\* The codec alone
CodecSpec == Init /\ [][CodecNext]_vars

\* The restarts
RestartSpec == Init /\ [][RestartNext]_vars

\* ================================================================ claims
AllocatingCalls == {"chromaprint_get_fingerprint", "chromaprint_decode_fingerprint",
                    "chromaprint_encode_fingerprint"}
StatusCalls == {"chromaprint_start", "chromaprint_feed", "chromaprint_finish"}
               \cup AllocatingCalls
Allocs(calls) == {i \in DOMAIN calls : calls[i].fn \in AllocatingCalls /\ calls[i].buf = 1}
Deallocs(calls) == {i \in DOMAIN calls : calls[i].fn = "chromaprint_dealloc"}
FailedCalls(calls) ==
    {i \in DOMAIN calls : calls[i].fn \in StatusCalls /\ calls[i].status # 1}

\* C1: once finish() has returned a fingerprint on a session, every later
\* finish() on that session fails and returns no fingerprint.
C1_SecondFinishFails ==
    [][\A s \in Sessions :
        (done[s] /\ last'.op = "finish" /\ last'.s = s)
            => (last'.outcome # "ok" /\ last'.result = None)]_vars

\* C2: finish() on a session whose engine is still Created fails, returns no
\* fingerprint and leaves the session Created.
C2_FinishFromCreatedFails ==
    (last.op = "finish" /\ last.pre = "Created")
        => (last.outcome # "ok" /\ last.result = None /\ eng[last.s].st = "Created")

\* C3: feed of a chunk of odd byte length on a started session raises and
\* makes no engine call.
C3_OddFeedRejected ==
    (last.op = "feed" /\ last.pre = "Started" /\ Len(last.data) % 2 = 1)
        => (last.outcome # "ok" /\ last.calls = <<>>)

\* C4: chromaprint_free has been called on a session's handle exactly once
\* when the session has been destroyed (by an explicit __del__, by
\* collection, or by both), and never before.
C4_FreeExactlyOnce ==
    \A s \in Sessions :
        freeCalls[ctx[s]] = IF pyState[s] \in {"noattr", "collected"} THEN 1 ELSE 0
C4_Witness ==
    \E s \in Sessions :
        /\ pyState[s] = "collected"
        /\ last.op = "del" /\ last.outcome = "AttributeError"
        /\ ctx[s] # NULL /\ freeCalls[ctx[s]] = 1

\* C5: in finish, decode_fingerprint and encode_fingerprint, the output
\* buffer the engine allocated, if any, is passed to chromaprint_dealloc
\* exactly once, after its allocation and before the operation ends; no
\* dealloc is made without an allocation.
C5_BuffersReleasedOnce ==
    last.op \in {"finish", "decode", "encode"}
        => /\ Cardinality(Allocs(last.calls)) = Cardinality(Deallocs(last.calls))
           /\ Cardinality(Allocs(last.calls)) <= 1
           /\ \A d \in Deallocs(last.calls) : \E a \in Allocs(last.calls) : a < d
C5_Witness ==
    /\ last.op = "finish" /\ last.outcome = "ok"
    /\ Cardinality(Allocs(last.calls)) = 1
    /\ Cardinality(Deallocs(last.calls)) = 1

\* C6: what encode_fingerprint returned can be parsed by the engine with
\* the same flag, and decode_fingerprint of it with the same flag, when it
\* returns, returns exactly the encoded fingerprint and algorithm.
C6_RoundTrip ==
    /\ encoded.set
        => EngineDecodable(encoded.bytes, Len(encoded.bytes), Base64Flag(encoded.base64))
    /\ (/\ last.op = "decode" /\ last.outcome = "ok" /\ encoded.set
        /\ last.data = encoded.bytes /\ last.args.base64 = encoded.base64)
        => last.result = <<encoded.fp, encoded.alg>>
C6_Witness ==
    /\ last.op = "decode" /\ last.outcome = "ok" /\ encoded.set
    /\ last.data = encoded.bytes /\ last.args.base64 = encoded.base64
    /\ encoded.base64
    /\ Len(encoded.fp) >= 2 /\ encoded.fp[1] < 0 /\ encoded.fp[2] > 0
    /\ encoded.alg = ALGORITHM_TEST3

\* C7: a finish() that raises on a started session leaves it Started.
C7_FailedFinishStaysStarted ==
    (last.op = "finish" /\ last.pre = "Started" /\ last.outcome # "ok")
        => eng[last.s].st = "Started"

C9_ErrorIffStatusFailed ==
    last.op \in {"start", "feed", "finish", "decode", "encode"}
        => /\ last.outcome = "FingerprintError" <=> FailedCalls(last.calls) # {}
           /\ FailedCalls(last.calls) \subseteq {Len(last.calls)}
           /\ \A i, j \in DOMAIN last.calls :
                (last.calls[i].fn = last.calls[j].fn /\ last.calls[i].fn \in StatusCalls)
                    => i = j
C9_Witness ==
    /\ last.op = "finish" /\ last.outcome = "FingerprintError"
    /\ Len(last.calls) = 2 /\ last.calls[2].status = 2

\* C10: the fingerprint a started session returns after even-length chunks
\* is the one a session with the same algorithm and start parameters
\* returns after a single feed of their concatenation.
OneShot(alg, rate, ch, data) ==
    EngGetFingerprint(EngFinish(EngFeed(EngStart(EngNew(alg), rate, ch),
                                        data, SampleCount(data))))
C10_ConcatenationInvariance ==
    \A s \in Sessions :
        (/\ last.op = "finish" /\ last.s = s /\ last.outcome = "ok"
         /\ last.pre = "Started" /\ fed[s].even)
            => last.result = OneShot(eng[s].alg, eng[s].rate, eng[s].ch, fed[s].bytes)
C10_Witness ==
    \E s \in Sessions :
        /\ last.op = "finish" /\ last.s = s /\ last.outcome = "ok"
        /\ last.pre = "Started" /\ fed[s].even /\ fed[s].split
        /\ Len(fed[s].bytes) = 4

\* C11: a feed on a session whose engine is Created or Finished raises
\* and makes no successful engine call, also for a chunk of even length.
C11_FeedOnlyWhenStarted ==
    (/\ last.op = "feed" /\ last.pre \in {"Created", "Finished"}
     /\ Len(last.data) % 2 = 0)
        => (last.outcome # "ok" /\ FailedCalls(last.calls) = DOMAIN last.calls)

\* C12: a value is returned to the caller of a session operation only by a
\* finish() whose chromaprint_finish and chromaprint_get_fingerprint calls
\* both answered success; new, start, feed, __del__ and a raising finish
\* return nothing.
C12_FingerprintOnlyFromFinish ==
    (last.op \in {"new", "del", "start", "feed", "finish"} /\ last.result # None)
        => /\ last.op = "finish" /\ last.outcome = "ok"
           /\ Len(last.calls) >= 2
           /\ last.calls[1].fn = "chromaprint_finish" /\ last.calls[1].status = 1
           /\ last.calls[2].fn = "chromaprint_get_fingerprint"
           /\ last.calls[2].status = 1
C12_Witness ==
    /\ last.op = "finish" /\ last.outcome = "ok" /\ last.result # None
    /\ Len(eng[last.s].audio) > 0

\* C13: a codec call, returning or raising, changes no session: the
\* objects, their handles, the engine instances, the free calls and the
\* fed bytes are as before.
C13_CodecChangesNoSession ==
    [][last'.op \in {"encode", "decode"}
        => (pyState' = pyState /\ ctx' = ctx /\ eng' = eng
            /\ freeCalls' = freeCalls /\ fed' = fed /\ done' = done)]_vars
C13_Witness ==
    /\ last.op = "encode" /\ last.outcome = "FingerprintError"
    /\ \E s \in Sessions : eng[s].st = "Started" /\ Len(eng[s].audio) > 0

\* C14: while a session is Started, the engine's accumulated audio is the
\* samples of all the bytes of the successful feeds, in call order.
C14_AudioIsConcatenation ==
    \A s \in Sessions :
        eng[s].st = "Started"
            => /\ 2 * Len(eng[s].audio) = Len(fed[s].bytes)
               /\ eng[s].audio = EngineSamples(fed[s].bytes, Len(eng[s].audio))

\* C15: a session object that exists holds a handle the engine allocated
\* and has not released.
C15_LiveSessionHasHandle ==
    \A s \in Sessions :
        pyState[s] = "alive"
            => (ctx[s] # NULL /\ eng[s].st \in {"Created", "Started", "Finished"})

\* C16: a start() on a Started session either returns, and then the
\* session is Started with the new parameters and no accumulated audio, or
\* raises, and then the session, its engine state and its audio are as
\* before; for the same parameters it is the same of the two every time.
C16_RestartResetsOrRejects ==
    [][\A s \in Sessions :
        (last'.op = "start" /\ last'.s = s /\ last'.pre = "Started")
            => /\ IF last'.outcome = "ok"
                  THEN /\ eng'[s].st = "Started" /\ eng'[s].audio = <<>>
                       /\ eng'[s].rate = last'.data[1] /\ eng'[s].ch = last'.data[2]
                       /\ fed'[s] = NoneFed
                  ELSE /\ eng' = eng /\ fed' = fed
               /\ pyState' = pyState /\ ctx' = ctx
               /\ \A p \in DOMAIN restarts'[s] :
                    restarts'[s][p].ok = 0 \/ restarts'[s][p].err = 0]_vars
C16_Witness ==
    /\ last.op = "start" /\ last.pre = "Started"
    /\ last.outcome = "FingerprintError"
    /\ eng[last.s].st = "Started" /\ Len(eng[last.s].audio) > 0
    /\ restarts[last.s][last.data].err = MaxSeen
    /\ \E p \in RestartParams : restarts[last.s][p].ok = MaxSeen

\* C17: the sample count of every chromaprint_feed call, times 2, is the
\* byte length of the chunk given to feed.
C17_SampleCountCoversChunk ==
    (last.op = "feed" /\ last.calls # <<>>)
        => 2 * last.calls[1].count = Len(last.data)

\* C18: after chromaprint_free was called on a session's handle, every
\* start, feed, finish and __del__ on that session raises and makes no
\* engine call.
C18_NoEngineCallAfterFree ==
    [][\A s \in Sessions :
        (/\ pyState[s] # "unborn" /\ freeCalls[ctx[s]] >= 1
         /\ last'.s = s /\ last'.op \in {"start", "feed", "finish", "del"})
            => (last'.outcome # "ok" /\ last'.calls = <<>>)]_vars
C18_Witness ==
    /\ last.op = "finish" /\ last.outcome = "AttributeError" /\ last.calls = <<>>
    /\ ctx[last.s] # NULL /\ freeCalls[ctx[last.s]] = 1

\* C19: in finish, decode_fingerprint and encode_fingerprint the output
\* buffer is read after the call that allocated it and before its dealloc,
\* never after; chromaprint_get_fingerprint is called only after
\* chromaprint_finish answered success in the same finish().
Reads(calls) == {i \in DOMAIN calls : calls[i].fn = "read"}
C19_ReadBeforeDealloc ==
    last.op \in {"finish", "decode", "encode"}
        => /\ \A r \in Reads(last.calls) :
                /\ \E a \in Allocs(last.calls) : a < r
                /\ \A d \in Deallocs(last.calls) : r < d
           /\ last.outcome = "ok" => Reads(last.calls) # {}
           /\ \A i \in DOMAIN last.calls :
                last.calls[i].fn = "chromaprint_get_fingerprint"
                    => /\ i = 2
                       /\ last.calls[1].fn = "chromaprint_finish"
                       /\ last.calls[1].status = 1
C19_Witness ==
    /\ last.op = "decode" /\ last.outcome = "ok"
    /\ Reads(last.calls) # {} /\ Deallocs(last.calls) # {}

\* C20: feed of data that is neither bytes nor of a buffer type raises
\* TypeError, makes no engine call and changes nothing; data of a buffer
\* type reaches the engine as bytes with the same content.
C20_FeedTypes ==
    [][last'.op = "feed"
        => /\ (last'.type \notin BUFFER_TYPES \cup {"bytes"})
                => /\ last'.outcome = "TypeError" /\ last'.calls = <<>>
                   /\ eng' = eng /\ fed' = fed /\ pyState' = pyState
           /\ (last'.type \in BUFFER_TYPES \cup {"bytes"})
                => /\ last'.outcome # "TypeError"
                   /\ last'.calls # <<>>
                        => /\ last'.calls[1].type = BYTES_TYPE
                           /\ last'.calls[1].bytes = last'.data]_vars
C20_Witness ==
    /\ last.op = "feed" /\ last.type = "str" /\ last.outcome = "TypeError"
    /\ last.pre = "Started" /\ Len(eng[last.s].audio) > 0
====
